---- MODULE Spec2Model ----
(***************************************************************************)
(* The voice assistant of src/App.tsx as a state machine: the React state  *)
(* (status, conversation, error), the refs of the App component, the       *)
(* browser objects those refs point to (media stream, audio contexts,      *)
(* script processor node, buffer sources) and the live session promise,    *)
(* together with the event handlers and the continuations of the async     *)
(* functions startSession, stopSession and handleMessage.                  *)
(*                                                                         *)
(* Every action is one run-to-completion step of the JavaScript event      *)
(* loop: a handler from its entry to its first await on a deferred         *)
(* operation, or the continuation after such an await up to the next one.  *)
(* An await on an already settled promise resumes in a microtask, before   *)
(* any other handler can run, so it does not end the step.                 *)
(***************************************************************************)
EXTENDS Integers, Sequences, FiniteSets, TLC

\* ---------------------------------------------------------------- bounds
\* startSession() invocations in one run; the n-th one creates stream n,
\* audio contexts n and session n ("generation" n).
MaxStarts == 2
\* stopSession() invocations suspended on one pending session promise
MaxStops == 2
\* buffer sources created in one run in which sessions are also stopped
MixSources == 1
\* buffer sources created in one run
MaxSources == 2
\* the largest reading of an output context's clock
MaxTime == 2
\* the longest accumulated transcription, in characters
MaxAcc == 2
\* turns appended to the conversation in one run
MaxTurns == 1
\* the samples of one capture buffer
MaxFrame == 2
\* the largest reading of Date.now()
MaxClock == 1
\* the sample values on each side of zero: a sample is k / Levels, -1.0 to 1.0
Levels == 4

\* a ref holding null (useRef(null))
NULL == 0

Gens == 1..MaxStarts

\* calls of close() on one object, counted as 0, 1 and 2 = more than once
Again(n) == IF n = 0 THEN 1 ELSE 2
Max(a, b) == IF a > b THEN a ELSE b

\* the error state holding null (useState(null)), and the two user-facing
\* messages
NoError == "null"
MicMessage == "Could not access microphone. Please grant permission and try again."
ConnMessage == "An error occurred with the connection. Please try again."

VARIABLES
    \* React state
    status, error, conversation,
    \* refs
    liveSessionPromise, inputAudioContext, outputAudioContext,
    microphoneStream, scriptProcessorNode,
    \* browser and service objects, by generation
    nStarts,        \* startSession() invocations so far
    getUserMedia,   \* the microphone request of each invocation
    session,        \* the promise ai.live.connect returned and its socket
    inCtx, outCtx,  \* the AudioContext objects
    track,          \* the track of the MediaStream
    node,           \* the ScriptProcessorNode created in onopen
    closeSync,      \* whether AudioContext.state reads "closed" right after close()
    stopThrew,      \* some stopSession() invocation ended in a rejection
    \* refs of the transcript and of playback
    userInputRef, aiOutputRef, nextAudioStartTime, audioSources,
    sources,        \* every AudioBufferSourceNode created, in creation order
    decoding,       \* handleMessage invocations suspended at line 90, each
                    \* with whether an interruption was handled since (cut)
    dateNow,        \* the reading of Date.now()
    \* the capture callback
    inputData,      \* the samples of the last buffer, in units of 1 / Levels
    int16,          \* the Int16Array made of them
    \* history
    lastCall,       \* the last of: toggle to start, toggle to stop, error handler
    userHeard, aiHeard, \* the fragments received since the last turn boundary
    turns           \* turn-complete signals that appended to the conversation

\* what stopSession writes
lifeVars == <<liveSessionPromise, inputAudioContext, outputAudioContext,
              microphoneStream, scriptProcessorNode, session, inCtx, outCtx,
              track, node, stopThrew>>
\* what handleMessage writes, status apart
talkVars == <<conversation, userInputRef, aiOutputRef, nextAudioStartTime,
              audioSources, sources>>
histVars == <<userHeard, aiHeard, turns>>
\* what onaudioprocess writes
capVars == <<inputData, int16>>

vars == <<status, error, lifeVars, talkVars, histVars, capVars, nStarts,
          getUserMedia, closeSync, decoding, dateNow, lastCall>>

\* ------------------------------------------------------- stopSession()
\* What stopSession reads and writes, as one record, so that its segments
\* compose: the refs and the objects they point to.
H == [lsp |-> liveSessionPromise, ms |-> microphoneStream,
      spn |-> scriptProcessorNode, ictx |-> inputAudioContext,
      octx |-> outputAudioContext, session |-> session, inCtx |-> inCtx,
      outCtx |-> outCtx, track |-> track, node |-> node, threw |-> stopThrew]

ApplyH(h) ==
    /\ liveSessionPromise' = h.lsp
    /\ microphoneStream' = h.ms
    /\ scriptProcessorNode' = h.spn
    /\ inputAudioContext' = h.ictx
    /\ outputAudioContext' = h.octx
    /\ session' = h.session
    /\ inCtx' = h.inCtx
    /\ outCtx' = h.outCtx
    /\ track' = h.track
    /\ node' = h.node
    /\ stopThrew' = h.threw

\* AudioContext.close(): the context starts closing and the caller waits for
\* the promise; the state attribute reads "closed" at once or on completion.
CloseContext(c) ==
    [c EXCEPT !.closeCalls = Again(@),
              !.state = IF closeSync THEN "closed" ELSE @,
              !.waiter = TRUE]

\* close() on a context that is already closing: the promise is rejected
\* (InvalidStateError) and the await throws.
CloseContextAgain(c) == [c EXCEPT !.closeCalls = Again(@)]

\* line 156, after the await of line 155
StopAfterOutputClose(h) == [h EXCEPT !.octx = NULL]

\* lines 154-157
StopOutput(h) ==
    IF h.octx # NULL /\ h.outCtx[h.octx].state # "closed"
    THEN IF h.outCtx[h.octx].closeCalls = 0
         THEN [h EXCEPT !.outCtx[h.octx] = CloseContext(@)]
         ELSE [h EXCEPT !.outCtx[h.octx] = CloseContextAgain(@), !.threw = TRUE]
    ELSE h

\* line 152, after the await of line 151, and on
StopAfterInputClose(h) == StopOutput([h EXCEPT !.ictx = NULL])

\* lines 150-153
StopInput(h) ==
    IF h.ictx # NULL /\ h.inCtx[h.ictx].state # "closed"
    THEN IF h.inCtx[h.ictx].closeCalls = 0
         THEN [h EXCEPT !.inCtx[h.ictx] = CloseContext(@)]
         ELSE [h EXCEPT !.inCtx[h.ictx] = CloseContextAgain(@), !.threw = TRUE]
    ELSE StopOutput(h)

\* lines 140-143
StopTracks(h) ==
    IF h.ms # NULL THEN [h EXCEPT !.track[h.ms] = "stopped", !.ms = NULL] ELSE h

\* lines 145-148
StopNode(h) ==
    IF h.spn # NULL THEN [h EXCEPT !.node[h.spn] = "disconnected", !.spn = NULL] ELSE h

\* lines 140-157
StopResources(h) == StopInput(StopNode(StopTracks(h)))

\* lines 136-137, after the await of line 135 returned session g, and on
StopAfterSession(h, g) ==
    StopResources([h EXCEPT !.session[g].closeCalls = Again(@),
                            !.session[g].conn = IF @ = "open" THEN "closed" ELSE @,
                            !.lsp = NULL])

\* the session closed without the check of line 134: close() of null throws
StopBegin_NoNullCheck(h) ==
    IF h.lsp = NULL THEN [h EXCEPT !.threw = TRUE]
    ELSE IF h.session[h.lsp].conn \in {"pending", "failed"}
         THEN [h EXCEPT !.session[h.lsp].waiters = @ + 1]
    ELSE IF h.session[h.lsp].conn = "rejected"
         THEN [h EXCEPT !.threw = TRUE]
    ELSE StopAfterSession(h, h.lsp)

\* lines 134-157 (line 132, setStatus('idle'), is StopStatus): up to the
\* first await on a deferred operation
StopBegin(h) ==
    IF h.lsp = NULL THEN StopResources(h)
    ELSE IF h.session[h.lsp].conn \in {"pending", "failed"}
         THEN [h EXCEPT !.session[h.lsp].waiters = @ + 1]
    ELSE IF h.session[h.lsp].conn = "rejected"
         THEN [h EXCEPT !.threw = TRUE]
    ELSE StopAfterSession(h, h.lsp)

\* line 132
StopStatus == "idle"

\* the bound on suspended invocations
CanStop(h) ==
    h.lsp # NULL /\ h.session[h.lsp].conn \in {"pending", "failed"}
        => h.session[h.lsp].waiters < MaxStops

\* the n invocations suspended on session g's promise resume in order
RECURSIVE ResumeStops(_, _, _)
ResumeStops(h, g, n) ==
    IF n = 0 THEN h ELSE ResumeStops(StopAfterSession(h, g), g, n - 1)

\* ------------------------------------------------------ handleMessage()
\* What handleMessage reads and writes, as one record.
R == [status |-> status, user |-> userInputRef, ai |-> aiOutputRef,
      conv |-> conversation, cursor |-> nextAudioStartTime,
      active |-> audioSources, sources |-> sources]

ApplyR(r) ==
    /\ status' = r.status
    /\ userInputRef' = r.user
    /\ aiOutputRef' = r.ai
    /\ conversation' = r.conv
    /\ nextAudioStartTime' = r.cursor
    /\ audioSources' = r.active
    /\ sources' = r.sources

\* String.prototype.trim on a sequence of characters
RECURSIVE TrimStart(_)
TrimStart(t) ==
    IF t # <<>> /\ Head(t) = " " THEN TrimStart(Tail(t)) ELSE t

RECURSIVE TrimEnd(_)
TrimEnd(t) ==
    IF t # <<>> /\ t[Len(t)] = " " THEN TrimEnd(SubSeq(t, 1, Len(t) - 1)) ELSE t

Trim(t) == TrimEnd(TrimStart(t))

\* a fragment put in front of the accumulated text
Transcribe_Prepend(r, m) ==
    IF m.hasOut THEN [r EXCEPT !.ai = m.outText \o @]
    ELSE IF m.hasIn THEN [r EXCEPT !.user = m.inText \o @]
    ELSE r

\* lines 64-68
Transcribe(r, m) ==
    IF m.hasOut THEN [r EXCEPT !.ai = @ \o m.outText]
    ELSE IF m.hasIn THEN [r EXCEPT !.user = @ \o m.inText]
    ELSE r

\* line 75
UserEntry(t) == [id |-> dateNow, speaker |-> "user", text |-> t]
\* line 78
AiEntry(t) == [id |-> dateNow + 1, speaker |-> "ai", text |-> t]

\* the user's text appended whether empty or not
FlushUser_Always(conv, userText) == Append(conv, UserEntry(userText))

\* lines 74-76
FlushUser(conv, userText) ==
    IF userText # <<>> THEN Append(conv, UserEntry(userText)) ELSE conv

\* lines 77-79
FlushAi(conv, aiText) ==
    IF aiText # <<>> THEN Append(conv, AiEntry(aiText)) ELSE conv

\* lines 70-84
TurnComplete(r) ==
    [r EXCEPT !.conv = FlushAi(FlushUser(r.conv, Trim(r.user)), Trim(r.ai)),
              !.user = <<>>,
              !.ai = <<>>,
              !.status = "listening"]

\* the cursor set to the clock's reading, whatever is already scheduled
BeginAudio_ClockOnly(r, t) ==
    [r EXCEPT !.status = "speaking", !.cursor = t]

\* lines 87-89: up to the await of line 90; t is the output clock's reading
BeginAudio(r, t) ==
    [r EXCEPT !.status = "speaking", !.cursor = Max(@, t)]

\* lines 92-105: the source is created on context c, whose clock reads t
Schedule(r, c, dur, t) ==
    [r EXCEPT !.sources = Append(@, [ctx |-> c, start |-> r.cursor, dur |-> dur,
                                     at |-> t, st |-> "playing"]),
              !.cursor = @ + dur,
              !.active = @ \cup {Len(r.sources) + 1}]

\* the sources stopped and forgotten, the cursor left where it was
Interrupted_KeepCursor(r) ==
    [r EXCEPT !.sources = [i \in DOMAIN r.sources |->
                              IF i \in r.active
                              THEN [r.sources[i] EXCEPT !.st = "stopped"]
                              ELSE r.sources[i]],
              !.active = {},
              !.status = "listening"]

\* lines 108-115
Interrupted(r) ==
    [r EXCEPT !.sources = [i \in DOMAIN r.sources |->
                              IF i \in r.active
                              THEN [r.sources[i] EXCEPT !.st = "stopped"]
                              ELSE r.sources[i]],
              !.active = {},
              !.cursor = 0,
              !.status = "listening"]

\* lines 96-101: the 'ended' listener of source i
Ended(r, i) ==
    [r EXCEPT !.sources[i].st = "ended",
              !.active = @ \ {i},
              !.status = IF r.active \ {i} = {} THEN "listening" ELSE @]

\* ----------------------------------------------------- onaudioprocess
\* line 187
Scale == 32768

\* the integer part of the number num / den (ToIntegerOrInfinity)
Truncate(num, den) ==
    IF num >= 0 THEN num \div den ELSE -((-num) \div den)

\* the store of an integer into an Int16Array element: ToInt16, the value
\* modulo 2^16 taken in -2^15 .. 2^15 - 1
ToInt16(n) == ((n + 2^15) % 2^16) - 2^15

\* line 187: the sample k / Levels, scaled and stored
Convert(k) == ToInt16(Truncate(k * Scale, Levels))

\* the buffers of the capture node
Frames ==
    UNION {[1..l -> -Levels..Levels] : l \in 1..MaxFrame}

\* ------------------------------------------------------------ messages
\* the transcription fragments of the user and of the assistant
UserFrags == {<<"a">>, <<"b">>, <<" ">>}
AiFrags == {<<"c">>, <<" ">>}
Durations == {1, 2}

Message(hasOut, outText, hasIn, inText, turnComplete, audio, interrupted) ==
    [hasOut |-> hasOut, outText |-> outText, hasIn |-> hasIn, inText |-> inText,
     turnComplete |-> turnComplete, audio |-> audio, interrupted |-> interrupted]

\* one transcription fragment, of the user or of the assistant, or none, and
\* possibly the turn-complete signal
TextMessages ==
    {Message(FALSE, <<>>, TRUE, f, tc, 0, FALSE) : f \in UserFrags, tc \in BOOLEAN}
    \cup {Message(TRUE, f, FALSE, <<>>, tc, 0, FALSE) : f \in AiFrags, tc \in BOOLEAN}
    \cup {Message(FALSE, <<>>, FALSE, <<>>, TRUE, 0, FALSE)}

\* no transcription: turn-complete, an audio payload (audio = its duration,
\* 0 = none) and the interrupted signal, in every combination but the empty one
AudioMessagesOf(D) ==
    {Message(FALSE, <<>>, FALSE, <<>>, tc, a, i) :
        tc \in BOOLEAN, a \in {0} \cup D, i \in BOOLEAN}
    \ {Message(FALSE, <<>>, FALSE, <<>>, FALSE, 0, FALSE)}

AudioMessages == AudioMessagesOf(Durations)
\* the same with payloads of one duration
ShortMessages == AudioMessagesOf({1})
\* a fragment of the user and one of the assistant in one message
BothMessages ==
    {Message(TRUE, o, TRUE, i, tc, 0, FALSE) :
        o \in AiFrags, i \in UserFrags, tc \in BOOLEAN}
\* a payload alone, and the turn-complete signal alone
PlainMessages ==
    {Message(FALSE, <<>>, FALSE, <<>>, FALSE, 1, FALSE),
     Message(FALSE, <<>>, FALSE, <<>>, TRUE, 0, FALSE)}

\* a payload, the turn-complete signal or the interrupted signal, alone
SignalMessages ==
    PlainMessages \cup {Message(FALSE, <<>>, FALSE, <<>>, FALSE, 0, TRUE)}

\* ---------------------------------------------------------------- Init
NoSession == [conn |-> "none", closeCalls |-> 0, waiters |-> 0]
NoContext == [state |-> "none", closeCalls |-> 0, waiter |-> FALSE, currentTime |-> 0]

Init ==
    /\ status = "idle"
    /\ error = NoError
    /\ conversation = <<>>
    /\ liveSessionPromise = NULL
    /\ inputAudioContext = NULL
    /\ outputAudioContext = NULL
    /\ microphoneStream = NULL
    /\ scriptProcessorNode = NULL
    /\ nStarts = 0
    /\ getUserMedia = [g \in Gens |-> "none"]
    /\ session = [g \in Gens |-> NoSession]
    /\ inCtx = [g \in Gens |-> NoContext]
    /\ outCtx = [g \in Gens |-> NoContext]
    /\ track = [g \in Gens |-> "none"]
    /\ node = [g \in Gens |-> "none"]
    /\ closeSync \in BOOLEAN
    /\ stopThrew = FALSE
    /\ userInputRef = <<>>
    /\ aiOutputRef = <<>>
    /\ nextAudioStartTime = 0
    /\ audioSources = {}
    /\ sources = <<>>
    /\ decoding = <<>>
    /\ dateNow = 0
    /\ inputData = <<>>
    /\ int16 = <<>>
    /\ lastCall = "none"
    /\ userHeard = <<>>
    /\ aiHeard = <<>>
    /\ turns = 0

\* ------------------------------------------------------------- actions
\* startSession, lines 161-165: up to the await of getUserMedia
StartSession ==
    /\ nStarts < MaxStarts
    /\ error' = NoError
    /\ status' = "thinking"
    /\ nStarts' = nStarts + 1
    /\ getUserMedia' = [getUserMedia EXCEPT ![nStarts + 1] = "pending"]
    /\ lastCall' = "start"
    /\ UNCHANGED <<lifeVars, talkVars, histVars, closeSync, capVars, decoding, dateNow>>

\* stopSession, lines 131-158: up to its first deferred await
StopSession ==
    /\ CanStop(H)
    /\ status' = StopStatus
    /\ ApplyH(StopBegin(H))
    /\ lastCall' = "stop"
    /\ UNCHANGED <<error, talkVars, histVars, nStarts, getUserMedia, closeSync, capVars,
                   decoding, dateNow>>

\* a session being set up taken for one that can be started
ToggleSession_StartWhileThinking ==
    \/ /\ status \in {"idle", "error", "thinking"}
       /\ StartSession
    \/ /\ status \notin {"idle", "error", "thinking"}
       /\ StopSession

\* toggleSession, lines 223-229
ToggleSession ==
    \/ /\ status \in {"idle", "error"}
       /\ StartSession
    \/ /\ status \notin {"idle", "error"}
       /\ StopSession

\* startSession, lines 166-213: getUserMedia resolved
MicGranted(g) ==
    /\ getUserMedia[g] = "pending"
    /\ getUserMedia' = [getUserMedia EXCEPT ![g] = "granted"]
    /\ track' = [track EXCEPT ![g] = "live"]
    /\ microphoneStream' = g
    /\ inCtx' = [inCtx EXCEPT ![g].state = "running"]
    /\ outCtx' = [outCtx EXCEPT ![g].state = "running"]
    /\ inputAudioContext' = g
    /\ outputAudioContext' = g
    /\ nextAudioStartTime' = 0
    /\ session' = [session EXCEPT ![g].conn = "pending"]
    /\ liveSessionPromise' = g
    /\ UNCHANGED <<status, error, conversation, userInputRef, aiOutputRef,
                   audioSources, sources, scriptProcessorNode, node, stopThrew,
                   histVars, nStarts, closeSync, capVars, decoding, dateNow, lastCall>>

\* startSession, lines 215-220: getUserMedia rejected
MicDenied(g) ==
    /\ getUserMedia[g] = "pending"
    /\ CanStop(H)
    /\ getUserMedia' = [getUserMedia EXCEPT ![g] = "denied"]
    /\ error' = MicMessage
    /\ status' = StopStatus
    /\ ApplyH(StopBegin(H))
    /\ lastCall' = "error"
    /\ UNCHANGED <<talkVars, histVars, nStarts, closeSync, capVars, decoding, dateNow>>

\* the onopen callback, lines 178-201, then the promise of line 175 resolves
\* and the stopSession invocations awaiting it resume (lines 136-157)
ConnectOpen(g) ==
    /\ session[g].conn = "pending"
    /\ IF inputAudioContext = NULL
       THEN \* line 179 throws: the socket is open, the promise never settles
            /\ session' = [session EXCEPT ![g].conn = "failed"]
            /\ UNCHANGED <<status, liveSessionPromise, inputAudioContext,
                           outputAudioContext, microphoneStream,
                           scriptProcessorNode, inCtx, outCtx, track, node,
                           stopThrew>>
       ELSE /\ status' = "listening"
            /\ ApplyH(ResumeStops(
                   [H EXCEPT !.node[g] = "connected", !.spn = g,
                             !.session[g].conn = "open",
                             !.session[g].waiters = 0],
                   g, session[g].waiters))
    /\ UNCHANGED <<error, talkVars, histVars, nStarts, getUserMedia, closeSync, capVars,
                   decoding, dateNow, lastCall>>

\* the promise of line 175 is rejected: no callback runs, and every
\* stopSession awaiting it (line 135) throws
ConnectReject(g) ==
    /\ session[g].conn = "pending"
    /\ session' = [session EXCEPT ![g].conn = "rejected", ![g].waiters = 0]
    /\ stopThrew' = (stopThrew \/ session[g].waiters > 0)
    /\ UNCHANGED <<status, error, liveSessionPromise, inputAudioContext,
                   outputAudioContext, microphoneStream, scriptProcessorNode,
                   inCtx, outCtx, track, node, talkVars, histVars, nStarts,
                   getUserMedia, closeSync, capVars, decoding, dateNow, lastCall>>

\* the socket of a session as an error event leaves it
SocketError(s) ==
    [s EXCEPT !.conn = IF @ = "pending" THEN "failed" ELSE "closed"]

\* handleError, lines 118-123: the onerror callback of session g
HandleError(g) ==
    /\ session[g].conn \in {"pending", "open"}
    /\ CanStop([H EXCEPT !.session[g] = SocketError(@)])
    /\ error' = ConnMessage
    /\ status' = StopStatus
    /\ ApplyH(StopBegin([H EXCEPT !.session[g] = SocketError(@)]))
    /\ lastCall' = "error"
    /\ UNCHANGED <<talkVars, histVars, nStarts, getUserMedia, closeSync, capVars,
                   decoding, dateNow>>

\* stopSession, lines 152-157: the close() of input context g completed
InputCloseDone(g) ==
    /\ inCtx[g].waiter
    /\ ApplyH(StopAfterInputClose(
           [H EXCEPT !.inCtx[g].state = "closed", !.inCtx[g].waiter = FALSE]))
    /\ UNCHANGED <<status, error, talkVars, histVars, nStarts, getUserMedia,
                   closeSync, capVars, decoding, dateNow, lastCall>>

\* stopSession, line 156: the close() of output context g completed
OutputCloseDone(g) ==
    /\ outCtx[g].waiter
    /\ ApplyH(StopAfterOutputClose(
           [H EXCEPT !.outCtx[g].state = "closed", !.outCtx[g].waiter = FALSE]))
    /\ UNCHANGED <<status, error, talkVars, histVars, nStarts, getUserMedia,
                   closeSync, capVars, decoding, dateNow, lastCall>>

\* whether handleMessage takes the branch of line 87
TakesAudio(m) == m.audio > 0 /\ outputAudioContext # NULL

\* lines 64-89 and, when line 87 is not taken, lines 108-115
MessageBegin(r, m) ==
    LET r1 == Transcribe(r, m)
        r2 == IF m.turnComplete THEN TurnComplete(r1) ELSE r1
    IN  IF TakesAudio(m)
        THEN BeginAudio(r2, outCtx[outputAudioContext].currentTime)
        ELSE IF m.interrupted THEN Interrupted(r2) ELSE r2

\* the payloads being decoded when an interruption is handled
Cut(q) == [k \in DOMAIN q |-> [q[k] EXCEPT !.cut = TRUE]]

\* the fragments a message carries, as received
Hear(heard, has, text, turnComplete) ==
    IF turnComplete THEN <<>> ELSE IF has THEN heard \o text ELSE heard

\* handleMessage, lines 63-116: the onmessage callback of session g, up to
\* the await of line 90 when the message carries audio, or to the end, in a
\* run of at most n turns
Receive(g, m, n) ==
    /\ session[g].conn = "open"
    /\ m.hasIn => Len(userInputRef) + Len(m.inText) <= MaxAcc /\ turns < n
    /\ m.hasOut => Len(aiOutputRef) + Len(m.outText) <= MaxAcc /\ turns < n
    /\ MessageBegin(R, m).conv # conversation => turns < n
    /\ m.audio > 0 => Len(sources) + Len(decoding) < MaxSources
    /\ ApplyR(MessageBegin(R, m))
    /\ decoding' = IF TakesAudio(m)
                   THEN Append(decoding, [dur |-> m.audio,
                                          interrupted |-> m.interrupted,
                                          cut |-> FALSE])
                   ELSE IF m.interrupted THEN Cut(decoding) ELSE decoding
    /\ userHeard' = Hear(userHeard, m.hasIn, m.inText, m.turnComplete)
    /\ aiHeard' = Hear(aiHeard, m.hasOut, m.outText, m.turnComplete)
    /\ turns' = IF MessageBegin(R, m).conv # conversation THEN turns + 1 ELSE turns
    /\ UNCHANGED <<error, lifeVars, nStarts, getUserMedia, closeSync, capVars,
                   dateNow, lastCall>>

OnMessage(g, m) == Receive(g, m, MaxTurns)

Without(q, k) == SubSeq(q, 1, k - 1) \o SubSeq(q, k + 1, Len(q))

\* lines 92-115, after the await of line 90
MessageResume(r, d) ==
    LET r1 == Schedule(r, outputAudioContext, d.dur,
                       outCtx[outputAudioContext].currentTime)
    IN  IF d.interrupted THEN Interrupted(r1) ELSE r1

\* handleMessage, lines 92-116: decodeAudioData resolved for the k-th
\* suspended invocation; line 92 throws when the output context ref is null
DecodeDone(k) ==
    /\ k \in DOMAIN decoding
    /\ IF outputAudioContext = NULL
       THEN /\ decoding' = Without(decoding, k)
            /\ UNCHANGED <<status, talkVars>>
       ELSE /\ decoding' = IF decoding[k].interrupted
                            THEN Cut(Without(decoding, k))
                            ELSE Without(decoding, k)
            /\ ApplyR(MessageResume(R, decoding[k]))
    /\ UNCHANGED <<error, lifeVars, histVars, nStarts, getUserMedia, closeSync, capVars,
                   dateNow, lastCall>>

\* handleMessage, line 90: decode or decodeAudioData threw (a DecodeError);
\* nothing catches it and the invocation ends
DecodeFail(k) ==
    /\ k \in DOMAIN decoding
    /\ decoding' = Without(decoding, k)
    /\ UNCHANGED <<status, error, lifeVars, talkVars, histVars, nStarts,
                   getUserMedia, closeSync, capVars, dateNow, lastCall>>

\* whether the context of a source still renders (close() not yet called)
Rendering(c) == outCtx[c].state = "running" /\ outCtx[c].closeCalls = 0

\* the 'ended' event of source i, lines 96-101: fired when it has played to
\* its end, or after stop()
SourceEnded(i) ==
    /\ i \in DOMAIN sources
    /\ Rendering(sources[i].ctx)
    /\ \/ sources[i].st = "stopped"
       \/ /\ sources[i].st = "playing"
          /\ outCtx[sources[i].ctx].currentTime >= sources[i].start + sources[i].dur
    /\ ApplyR(Ended(R, i))
    /\ UNCHANGED <<error, lifeVars, histVars, nStarts, getUserMedia, closeSync, capVars,
                   decoding, dateNow, lastCall>>

\* the clock of output context g advances
Tick(g) ==
    /\ Rendering(g)
    /\ outCtx[g].currentTime < MaxTime
    /\ outCtx' = [outCtx EXCEPT ![g].currentTime = @ + 1]
    /\ UNCHANGED <<status, error, liveSessionPromise, inputAudioContext,
                   outputAudioContext, microphoneStream, scriptProcessorNode,
                   session, inCtx, track, node, stopThrew, talkVars, histVars,
                   nStarts, getUserMedia, closeSync, capVars, decoding, dateNow, lastCall>>

\* the wall clock advances
ClockTick ==
    /\ dateNow < MaxClock
    /\ dateNow' = dateNow + 1
    /\ UNCHANGED <<status, error, lifeVars, talkVars, histVars, capVars, nStarts,
                   getUserMedia, closeSync, decoding, lastCall>>

\* the onaudioprocess callback of the node of session g, lines 182-196; the
\* blob is handed to the session, which changes no state of the program
AudioProcess(g, frame) ==
    /\ node[g] = "connected"
    /\ inCtx[g].state = "running"
    /\ inCtx[g].closeCalls = 0
    /\ inputData' = frame
    /\ int16' = [i \in DOMAIN frame |-> Convert(frame[i])]
    /\ UNCHANGED <<status, error, lifeVars, talkVars, histVars, nStarts,
                   getUserMedia, closeSync, decoding, dateNow, lastCall>>

\* ------------------------------------------------------ specifications
Lifecycle ==
    \/ ToggleSession
    \/ \E g \in Gens : MicGranted(g)
    \/ \E g \in Gens : MicDenied(g)
    \/ \E g \in Gens : ConnectOpen(g)
    \/ \E g \in Gens : ConnectReject(g)
    \/ \E g \in Gens : HandleError(g)
    \/ \E g \in Gens : InputCloseDone(g)
    \/ \E g \in Gens : OutputCloseDone(g)

Playback ==
    \/ \E k \in 1..MaxSources : DecodeDone(k)
    \/ \E k \in 1..MaxSources : DecodeFail(k)
    \/ \E i \in 1..MaxSources : SourceEnded(i)
    \/ \E g \in Gens : Tick(g)

\* a message received while sessions are started and stopped at will
MixMessage(g, m) ==
    /\ m.audio > 0 => Len(sources) + Len(decoding) < MixSources
    /\ OnMessage(g, m)

\* The whole program: every handler and every deferred completion, in any
\* order, the messages carrying no transcription.
Next ==
    \/ Lifecycle
    \/ Playback
    \/ \E g \in Gens, m \in ShortMessages : MixMessage(g, m)

Spec == Init /\ [][Next]_vars

\* Sessions started, stopped and failing at will, the messages setting the
\* status; no payload finishes decoding.
NextToggle ==
    \/ Lifecycle
    \/ \E g \in Gens, m \in PlainMessages : MixMessage(g, m)

SpecToggle == Init /\ [][NextToggle]_vars

\* the first press of the button: toggleSession in the initial state
FirstStart ==
    /\ status = "idle"
    /\ nStarts = 0
    /\ StartSession

\* one session that opens and is never stopped
Opening ==
    \/ FirstStart
    \/ \E g \in Gens : MicGranted(g)
    \/ \E g \in Gens : ConnectOpen(g)

\* Playback in one open session.
NextPlay ==
    \/ Opening
    \/ Playback
    \/ \E g \in Gens, m \in AudioMessages : OnMessage(g, m)

SpecPlay == Init /\ [][NextPlay]_vars

\* The transcript of one open session.
NextTurn ==
    \/ Opening
    \/ \E g \in Gens, m \in TextMessages : OnMessage(g, m)

SpecTurn == Init /\ [][NextTurn]_vars

\* stopSession() called at any time, around one session that is started once
NextStop ==
    \/ StopSession
    \/ Opening
    \/ \E g \in Gens : ConnectReject(g)
    \/ \E g \in Gens : InputCloseDone(g)
    \/ \E g \in Gens : OutputCloseDone(g)
    \/ \E g \in Gens : Tick(g)

SpecStop == Init /\ [][NextStop]_vars

\* The capture of one open session.
NextCapture ==
    \/ Opening
    \/ \E g \in Gens, frame \in Frames : AudioProcess(g, frame)

SpecCapture == Init /\ [][NextCapture]_vars

\* The transcript of one open session over several turns, the wall clock
\* advancing, the messages carrying one fragment or two.
NextTalk ==
    \/ Opening
    \/ ClockTick
    \/ \E g \in Gens, m \in TextMessages \cup BothMessages :
          Receive(g, m, MaxTurns + 1)

SpecTalk == Init /\ [][NextTalk]_vars

\* the button pressed when no deferred operation is in flight
CalmToggle ==
    /\ \A g \in Gens :
        /\ getUserMedia[g] # "pending"
        /\ session[g].conn # "pending"
        /\ ~inCtx[g].waiter
        /\ ~outCtx[g].waiter
    /\ decoding = <<>>
    /\ ToggleSession

\* the clock of output context g advances while a payload is being decoded
DecodeTick(g) ==
    /\ decoding # <<>>
    /\ Tick(g)

\* Playback in sessions started and stopped one after the other.
NextCursor ==
    \/ CalmToggle
    \/ \E g \in Gens : MicGranted(g)
    \/ \E g \in Gens : ConnectOpen(g)
    \/ \E g \in Gens : InputCloseDone(g)
    \/ \E g \in Gens : OutputCloseDone(g)
    \/ \E k \in 1..MaxSources : DecodeDone(k)
    \/ \E g \in Gens : DecodeTick(g)
    \/ \E g \in Gens, m \in SignalMessages : OnMessage(g, m)

SpecCursor == Init /\ [][NextCursor]_vars

\* the fragments that leave the accumulators non-blank
CrossMessages ==
    {Message(FALSE, <<>>, TRUE, <<"a">>, tc, 0, FALSE) : tc \in BOOLEAN}
    \cup {Message(TRUE, <<"c">>, FALSE, <<>>, tc, 0, FALSE) : tc \in BOOLEAN}

\* The transcript over sessions started and stopped one after the other.
NextCross ==
    \/ CalmToggle
    \/ \E g \in Gens : MicGranted(g)
    \/ \E g \in Gens : ConnectOpen(g)
    \/ \E g \in Gens : InputCloseDone(g)
    \/ \E g \in Gens : OutputCloseDone(g)
    \/ \E g \in Gens, m \in CrossMessages : OnMessage(g, m)

SpecCross == Init /\ [][NextCross]_vars

\* --------------------------------------------------------------- claims
\* no deferred operation is in flight: no microphone request, no session
\* being opened, no stopSession suspended, no payload being decoded
Quiescent ==
    /\ \A g \in Gens :
        /\ getUserMedia[g] # "pending"
        /\ session[g].conn # "pending"
        /\ session[g].waiters = 0
        /\ ~inCtx[g].waiter
        /\ ~outCtx[g].waiter
    /\ decoding = <<>>

\* C1: once an error handler (the catch of startSession on a permission
\* denial, or handleError) and the teardown it invoked have finished, and no
\* toggle has been issued since, status is `error` and the error message is set.
C1_ErrorPersists ==
    (lastCall = "error" /\ Quiescent) => (status = "error" /\ error # NoError)

\* C2: when the microphone was granted and the connect of session g completed
\* with failure, then, once nothing is in flight any more, status is `error`
\* (not `thinking`), an error message is recorded and the microphone stream
\* and both audio contexts of g are released.
C2_OpenFailureSurfaced ==
    \A g \in Gens :
        (session[g].conn = "rejected" /\ lastCall = "start" /\ Quiescent)
            => /\ status = "error"
               /\ error # NoError
               /\ track[g] = "stopped"
               /\ inCtx[g].state = "closed"
               /\ outCtx[g].state = "closed"

\* C3: after stop() (toggle to stop, no start() since), once every deferred
\* operation has completed (none of them by a rejected connect), status is `idle`, no session is open and the
\* session, stream, node and context refs are all null.
C3_StoppedIsIdle ==
    (lastCall = "stop" /\ Quiescent /\ \A g \in Gens : session[g].conn # "rejected")
        => /\ status = "idle"
           /\ \A g \in Gens : session[g].conn # "open"
           /\ liveSessionPromise = NULL
           /\ microphoneStream = NULL
           /\ scriptProcessorNode = NULL
           /\ inputAudioContext = NULL
           /\ outputAudioContext = NULL

\* C4: however stop() calls overlap, close() is called at most once on a
\* session and at most once on each audio context.
C4_NoDoubleRelease ==
    \A g \in Gens :
        /\ session[g].closeCalls <= 1
        /\ inCtx[g].closeCalls <= 1
        /\ outCtx[g].closeCalls <= 1

\* C5: toggle() dispatches on status: from `idle` or `error` it starts a
\* session (error message cleared, status `thinking`, the microphone
\* requested); from `thinking`, `listening` or `speaking` it runs stop()
\* (status `idle`, the teardown of stopSession begun); and no step other than
\* a toggle starts a session.
C5_ToggleDispatch ==
    [][/\ ToggleSession =>
            IF status \in {"idle", "error"}
            THEN /\ status' = "thinking"
                 /\ error' = NoError
                 /\ nStarts' = nStarts + 1
                 /\ getUserMedia'[nStarts + 1] = "pending"
                 /\ H' = H
            ELSE /\ status \in {"thinking", "listening", "speaking"}
                 /\ status' = "idle"
                 /\ nStarts' = nStarts
                 /\ H' = StopBegin(H)
       /\ nStarts' # nStarts => ToggleSession]_vars

\* toggle() has stopped a session while it was speaking, and an earlier one
\* while it was being set up
C5_Witness ==
    /\ lastCall = "stop"
    /\ status = "idle"
    /\ decoding # <<>>
    /\ nStarts = 2
    /\ getUserMedia[1] = "pending"

\* C6: every payload is scheduled at a start time that is not before the
\* output clock's reading when start() is issued, and not before the end
\* (start + duration) of the payload scheduled before it.
C6_StartTimes ==
    \A i \in DOMAIN sources :
        /\ sources[i].start >= sources[i].at
        /\ i > 1 => sources[i].start >= sources[i - 1].start + sources[i - 1].dur

\* a step in which handleMessage comes to its end for a message carrying
\* interrupted = true: at once when line 87 is not taken, after the decoding
\* otherwise
HandlesInterruption ==
    \/ \E g \in Gens, m \in AudioMessages :
          m.interrupted /\ ~TakesAudio(m) /\ OnMessage(g, m)
    \/ \E k \in DOMAIN decoding :
          decoding[k].interrupted /\ outputAudioContext # NULL /\ DecodeDone(k)

\* C7: right after the handler has processed a message carrying
\* interrupted = true, the active set is empty, the cursor is zero and status
\* is `listening`.
C7_Interruption ==
    [][HandlesInterruption =>
          /\ audioSources' = {}
          /\ nextAudioStartTime' = 0
          /\ status' = "listening"]_vars

\* an interruption has stopped two scheduled payloads
C7_Witness ==
    /\ Cardinality({i \in DOMAIN sources : sources[i].st = "stopped"}) = 2
    /\ audioSources = {}
    /\ nextAudioStartTime = 0
    /\ status = "listening"

\* what a speaker has said by the end of a turn: the fragments received since
\* the last turn boundary, the one of the closing message included
Said(heard, has, text) == Trim(IF has THEN heard \o text ELSE heard)

\* the messages a turn appends: the text, when there is any, under the
\* speaker's name
Utterance(speaker, text) ==
    IF text # <<>> THEN <<[speaker |-> speaker, text |-> text]>> ELSE <<>>

\* the conversation without the ids
Spoken(conv) ==
    [i \in DOMAIN conv |-> [speaker |-> conv[i].speaker, text |-> conv[i].text]]

\* C8: a turn-complete signal appends the user's message, its text the trimmed
\* concatenation in arrival order of the user fragments received since the
\* last turn boundary, and then the assistant's, each when it has any text,
\* appends nothing else, and leaves both accumulators empty and status
\* `listening`.
C8_TurnAppends ==
    [][\A g \in Gens, m \in TextMessages :
          (m.turnComplete /\ OnMessage(g, m)) =>
              /\ Spoken(conversation') =
                    Spoken(conversation)
                    \o Utterance("user", Said(userHeard, m.hasIn, m.inText))
                    \o Utterance("ai", Said(aiHeard, m.hasOut, m.outText))
              /\ userInputRef' = <<>>
              /\ aiOutputRef' = <<>>
              /\ status' = "listening"]_vars

\* a turn of two user fragments and two assistant fragments has been appended
C8_Witness ==
    /\ Spoken(conversation) = <<[speaker |-> "user", text |-> <<"a", "b">>],
                                [speaker |-> "ai", text |-> <<"c", "c">>]>>
    /\ userInputRef = <<>>
    /\ aiOutputRef = <<>>
    /\ status = "listening"

\* C9: no message of the conversation has an empty text, and a turn-complete
\* signal appends one message for each speaker whose trimmed text is not
\* empty and none for the other.
C9_NoEmptyMessage ==
    /\ [](\A i \in DOMAIN conversation : conversation[i].text # <<>>)
    /\ [][\A g \in Gens, m \in TextMessages :
            (m.turnComplete /\ OnMessage(g, m)) =>
                [i \in 1..(Len(conversation') - Len(conversation)) |->
                    conversation'[Len(conversation) + i].speaker]
                = (IF Said(userHeard, m.hasIn, m.inText) # <<>>
                   THEN <<"user">> ELSE <<>>)
                  \o (IF Said(aiHeard, m.hasOut, m.outText) # <<>>
                      THEN <<"ai">> ELSE <<>>)]_vars

\* a turn in which the user said only a blank has appended the assistant's
\* message alone
C9_Witness ==
    /\ Len(conversation) = 1
    /\ conversation[1].speaker = "ai"
    /\ turns = 1
    /\ status = "listening"

\* the edges of the status machine: idle -> thinking -> listening <->
\* speaking, error from anywhere, idle from anywhere
StatusEdges ==
    {<<"idle", "thinking">>, <<"thinking", "listening">>,
     <<"listening", "speaking">>, <<"speaking", "listening">>}
    \cup {<<a, "error">> : a \in {"idle", "thinking", "listening", "speaking"}}
    \cup {<<a, "idle">> : a \in {"thinking", "listening", "speaking", "error"}}

\* C10: status changes only along the edges of the status machine.
C10_StatusEdges ==
    [][status' # status => <<status, status'>> \in StatusEdges]_vars

\* every resource handle is null
NoHandle(h) ==
    /\ h.lsp = NULL
    /\ h.ms = NULL
    /\ h.spn = NULL
    /\ h.ictx = NULL
    /\ h.octx = NULL

\* C11: while no session was ever started, every handle is null and no stop()
\* has thrown, and a stop(), the first one or one that follows another,
\* leaves status `idle` and changes no handle and no resource.
C11_StopWithoutSession ==
    /\ [](nStarts = 0 => NoHandle(H) /\ ~stopThrew /\ status = "idle")
    /\ [][(nStarts = 0 /\ StopSession) =>
             /\ status' = "idle"
             /\ H' = H
             /\ NoHandle(H')
             /\ ~stopThrew']_vars

\* stop() has been called and no session was ever started
C11_Witness ==
    /\ nStarts = 0
    /\ lastCall = "stop"
    /\ status = "idle"
    /\ NoHandle(H)
    /\ \A g \in Gens : track[g] = "none" /\ session[g] = NoSession

\* C12: a sample of 1.0 is stored in the Int16Array as 32767, the largest
\* signed 16-bit integer.
C12_FullScale ==
    \A i \in DOMAIN inputData :
        inputData[i] = Levels => int16[i] = 2^15 - 1

\* C13: the ids of the conversation strictly increase along it (and so no
\* two messages have the same id).
C13_IdsIncrease ==
    \A i, j \in DOMAIN conversation :
        i < j => conversation[i].id < conversation[j].id

\* C14 as stated: the cursor decreases only in a step that handles an
\* interruption signal.
C14_CursorMonotone ==
    [][nextAudioStartTime' < nextAudioStartTime => HandlesInterruption]_vars

\* C14 amended: the cursor decreases only in a step that handles an
\* interruption signal, or in the step of startSession that creates the audio
\* contexts of a new session (line 172), and then it is reset to zero.
C14_CursorMonotoneOrStart ==
    [][nextAudioStartTime' < nextAudioStartTime =>
          /\ HandlesInterruption \/ \E g \in Gens : MicGranted(g)
          /\ nextAudioStartTime' = 0]_vars

\* a second session has been set up after a payload was scheduled in the
\* first one and never interrupted: the cursor is back to zero
C14_Witness ==
    /\ nextAudioStartTime = 0
    /\ getUserMedia[2] = "granted"
    /\ sources # <<>>
    /\ \A i \in DOMAIN sources : sources[i].st = "playing" /\ sources[i].ctx = 1

\* C15: every handle in the active set is still to be removed by the end of
\* its playback: it belongs to an output context that renders. (A handle of
\* a context that stop() has closed gets no 'ended' event and stays in the
\* set, through the next session, for as long as no interruption comes.)
C15_HandlesRemoved ==
    \A i \in audioSources : Rendering(sources[i].ctx)

\* C16: whenever status is `listening`, a session is open and the active
\* playback set is empty.
C16_ListeningIsQuiet ==
    status = "listening" =>
        /\ \E g \in Gens : session[g].conn = "open"
        /\ audioSources = {}

\* an accumulator with the fragment of a message appended
Joined(acc, has, text) == IF has THEN acc \o text ELSE acc

\* C17: every fragment of a received message is appended to its own
\* accumulator, the user's to userInputRef and the assistant's to aiOutputRef,
\* also when one message carries both (and when the message also completes
\* the turn, the texts appended to the conversation are the trimmed
\* accumulators with those fragments).
C17_EveryFragmentKept ==
    [][\A g \in Gens, m \in TextMessages \cup BothMessages :
          Receive(g, m, MaxTurns + 1) =>
              IF m.turnComplete
              THEN Spoken(conversation') =
                      Spoken(conversation)
                      \o Utterance("user", Trim(Joined(userInputRef, m.hasIn, m.inText)))
                      \o Utterance("ai", Trim(Joined(aiOutputRef, m.hasOut, m.outText)))
              ELSE /\ userInputRef' = Joined(userInputRef, m.hasIn, m.inText)
                   /\ aiOutputRef' = Joined(aiOutputRef, m.hasOut, m.outText)]_vars

\* C18: a payload received before an interruption that has been handled is
\* discarded when its decoding completes: no source is created for it, the
\* active set and status stay as they are.
C18_NoPlaybackAfterInterruption ==
    [][\A k \in DOMAIN decoding :
          (decoding[k].cut /\ DecodeDone(k)) =>
              /\ sources' = sources
              /\ audioSources' = audioSources
              /\ status' = status]_vars

\* a step leaves alone what startSession invocation n created: its session,
\* stream, contexts, and the refs that point to them
Spares(n) ==
    /\ session'[n] = session[n]
    /\ track'[n] = track[n]
    /\ inCtx'[n] = inCtx[n]
    /\ outCtx'[n] = outCtx[n]
    /\ liveSessionPromise = n => liveSessionPromise' = n
    /\ microphoneStream = n => microphoneStream' = n
    /\ inputAudioContext = n => inputAudioContext' = n
    /\ outputAudioContext = n => outputAudioContext' = n

\* C19: a step that resumes a suspended stop() (the session promise of g
\* resolving, or the close of a context of g completing) leaves alone
\* everything a later start() created, and no two sessions are open at once.
C19_StopOwnSession ==
    /\ [](\A g, n \in Gens :
            (session[g].conn = "open" /\ session[n].conn = "open") => g = n)
    /\ [][\A g \in Gens :
            \/ session[g].waiters > 0 /\ ConnectOpen(g)
            \/ InputCloseDone(g)
            \/ OutputCloseDone(g)
            => \A n \in Gens : n > g => Spares(n)]_vars

\* C20: when a session opens, both accumulators are empty: no fragment
\* received in an earlier session is left in them.
C20_NoCarryOver ==
    [][\A g \in Gens :
          ConnectOpen(g) => userInputRef' = <<>> /\ aiOutputRef' = <<>>]_vars

====
